---- MODULE Spec2Model ----
(***************************************************************************)
(* Model of the Azkar/Adiyah content browser: the audio coordinator        *)
(* (AudioProvider), the speech engine it drives (window.speechSynthesis),  *)
(* the item actions of ContentCard, and the three-route navigation layer.  *)
(*                                                                         *)
(* Every handler runs to completion on the single event loop, so each      *)
(* handler is one atomic action.  React commits a handler's state updates  *)
(* before the next handler runs, so playingId is read as last written.     *)
(*                                                                         *)
(* The speech engine is the browser's: an utterance handed to speak() is   *)
(* queued, starts speaking later, and its start/end/error events reach the *)
(* page as separate tasks.  The events of one utterance arrive in the      *)
(* order they were issued; events of different utterances are not ordered  *)
(* with respect to each other.                                             *)
(***************************************************************************)
EXTENDS Integers, Sequences, FiniteSets

VARIABLES
    available,      \* 'speechSynthesis' in window
    app,            \* "mounting" (first render done, effects pending), "mounted", "crashed"
    path,           \* location.pathname as its non-empty segments
    view,           \* what the matched route element rendered for path
    playingId,      \* AudioProvider state
    utteranceRef,   \* AudioProvider ref
    engQueue,       \* speechSynthesis: utterances submitted, not yet speaking
    engSpeaking,    \* speechSynthesis: the utterance being spoken
    inflight,       \* per utterance: events issued by the engine, not yet delivered
    copied,         \* items whose mounted ContentCard has copied = true
    alerts,         \* number of alert() dialogs shown
    lastOp,         \* history: the last handler that ran, and a tag of its pre-state
    reqs            \* history: the last two speak requests

vars == <<available, app, path, view, playingId, utteranceRef, engQueue,
          engSpeaking, inflight, copied, alerts, lastOp, reqs>>

audioVars == <<playingId, utteranceRef, engQueue, engSpeaking, inflight>>

----------------------------------------------------------------------------
(* Bounds *)

\* utterances that may be alive at once (in the engine, or with events in flight)
MaxLive == 2
\* alert dialogs counted
MaxAlerts == 2

----------------------------------------------------------------------------
(* Static content store *)

APP_DATA ==
    << [id |-> "azkar",
        categories |-> << [id |-> "azkar_morning", items |-> <<"m1", "m2">>] >>],
       [id |-> "adiyah",
        categories |-> << [id |-> "dua_quran", items |-> <<"q1">>] >>] >>

Range(s) == {s[i] : i \in 1..Len(s)}

Items == UNION {Range(c.items) : c \in UNION {Range(s.categories) : s \in Range(APP_DATA)}}

\* identifiers a path segment is drawn from: the stored ones and an unknown one
SegmentIds == {"azkar", "adiyah", "azkar_morning", "dua_quran", "nope"}

Paths == {<<>>} \cup {<<a>> : a \in SegmentIds}
                \cup {<<a, b>> : a \in SegmentIds, b \in SegmentIds}

Null == "null"
NotFound == [id |-> "undefined"]

\* Array.prototype.find: the first element with the id, or undefined
FindById(seq, id) ==
    IF \E i \in 1..Len(seq) : seq[i].id = id
    THEN seq[CHOOSE i \in 1..Len(seq) :
                 seq[i].id = id /\ \A j \in 1..(i-1) : seq[j].id # id]
    ELSE NotFound

----------------------------------------------------------------------------
(* Routes and pages *)

View(kind, section, category) ==
    [kind |-> kind, section |-> section, category |-> category]

HomePage == View("home", "", "")

\* the page of route "/:sectionId"
SectionCategoriesPage(sectionId) ==
    LET sectionData == FindById(APP_DATA, sectionId)
    IN  IF sectionData = NotFound
        THEN View("sectionNotFound", "", "")
        ELSE View("section", sectionData.id, "")

\* the page of route "/:sectionId/:categoryId"
ItemsListPage(sectionId, categoryId) ==
    LET section  == FindById(APP_DATA, sectionId)
        category == IF section = NotFound
                    THEN NotFound
                    ELSE FindById(section.categories, categoryId)
    IN  IF category = NotFound \/ section = NotFound
        THEN View("contentNotFound", "", "")
        ELSE View("items", section.id, category.id)

\* <Routes>: the element of the route matching the path
Render(p) ==
    CASE Len(p) = 0 -> HomePage
      [] Len(p) = 1 -> SectionCategoriesPage(p[1])
      [] Len(p) = 2 -> ItemsListPage(p[1], p[2])

\* the categories listed by a rendered section view
CategoriesShown(v) ==
    IF v.kind = "section"
    THEN {c.id : c \in Range(FindById(APP_DATA, v.section).categories)}
    ELSE {}

\* the items whose ContentCard a rendered items view mounts
CardsShown(v) ==
    IF v.kind = "items"
    THEN Range(FindById(FindById(APP_DATA, v.section).categories, v.category).items)
    ELSE {}

\* the listen button is rendered on azkar cards only
SpeakButtonShown(v, item) ==
    item \in CardsShown(v) /\ v.section = "azkar"

\* ContentCard.isPlaying
IsPlaying(item) == playingId = item

----------------------------------------------------------------------------
(* Utterances and the speech engine *)

\* a SpeechSynthesisUtterance object: the item its handlers close over, and
\* a number telling apart the objects created for the same item
Utterances == Items \X (1..MaxLive)
NoUtt == <<Null, 0>>
ItemOf(u) == u[1]

Events == {"start", "end", "error"}

\* what cancel() makes the engine issue for the utterance it was speaking
CancelSpeakingOutcomes == {"end", "error"}
\* ... and for an utterance it had queued but not started
CancelQueuedOutcomes == {"none", "error"}

Live(u) ==
    \/ inflight[u] # <<>>
    \/ u = engSpeaking
    \/ u \in Range(engQueue)
    \/ u = utteranceRef

LiveCount == Cardinality({u \in Utterances : Live(u)})

\* new SpeechSynthesisUtterance(text) for item id: an object not in use
NewUtterance(id) ==
    <<id, CHOOSE k \in 1..MaxLive :
              /\ ~Live(<<id, k>>)
              /\ \A j \in 1..(k-1) : Live(<<id, j>>)>>

Engine == [queue |-> engQueue, speaking |-> engSpeaking, inflight |-> inflight]

\* speechSynthesis.cancel()
SynthCancel(e, c, q) ==
    [queue    |-> <<>>,
     speaking |-> NoUtt,
     inflight |-> [u \in Utterances |->
                     IF u = e.speaking THEN Append(e.inflight[u], c)
                     ELSE IF u \in Range(e.queue) /\ q = "error"
                          THEN Append(e.inflight[u], "error")
                          ELSE e.inflight[u]]]

\* speechSynthesis.speak(u)
SynthSpeak(e, u) == [e EXCEPT !.queue = Append(e.queue, u)]

SetEngine(e) ==
    /\ engQueue' = e.queue
    /\ engSpeaking' = e.speaking
    /\ inflight' = e.inflight

EngineStatus ==
    IF engSpeaking # NoUtt THEN "speaking"
    ELSE IF engQueue # <<>> THEN "queued"
    ELSE "idle"

----------------------------------------------------------------------------
(* History *)

Op(op, pre) == [op |-> op, pre |-> pre]

\* the last two speak requests, oldest first
Remember(item, kind) ==
    LET r == Append(reqs, [item |-> item, kind |-> kind])
    IN  IF Len(r) > 2 THEN Tail(r) ELSE r

----------------------------------------------------------------------------
(* Initial state: the tree has rendered once at some location hash, the     *)
(* effects of the first commit have not run yet                             *)

Init ==
    /\ available \in BOOLEAN
    /\ app = "mounting"
    /\ path \in Paths
    /\ view = Render(path)
    /\ playingId = Null
    /\ utteranceRef = NoUtt
    /\ engQueue = <<>>
    /\ engSpeaking = NoUtt
    /\ inflight = [u \in Utterances |-> <<>>]
    /\ copied = {}
    /\ alerts = 0
    /\ lastOp = Op("init", "-")
    /\ reqs = <<>>

----------------------------------------------------------------------------
(* AudioProvider *)

\* The effect of AudioProvider's first commit: it calls
\* window.speechSynthesis.getVoices() unguarded.  Without the capability
\* window.speechSynthesis is undefined, the call throws, and with no error
\* boundary React unmounts the whole tree.
MountEffect ==
    /\ app = "mounting"
    /\ IF available
       THEN /\ app' = "mounted"
            /\ view' = view
       ELSE /\ app' = "crashed"
            /\ view' = View("blank", "", "")
    /\ lastOp' = Op("mount", "-")
    /\ UNCHANGED <<available, path, audioVars, copied, alerts, reqs>>

\* stop() that forgets to cancel the engine
StopNoCancel(c, q) ==
    /\ playingId' = Null
    /\ utteranceRef' = NoUtt
    /\ UNCHANGED <<engQueue, engSpeaking, inflight>>

\* stop(); c and q are what the engine issues for what it cancels
Stop(c, q) ==
    /\ SetEngine(SynthCancel(Engine, c, q))
    /\ playingId' = Null
    /\ utteranceRef' = NoUtt

\* play() that submits its utterance without cancelling prior playback
PlayNoCancel(id, c, q) ==
    IF playingId = id
    THEN Stop(c, q)
    ELSE LET utterance == NewUtterance(id)
         IN  /\ SetEngine(SynthSpeak(Engine, utterance))
             /\ utteranceRef' = utterance
             /\ playingId' = playingId

\* play(id, text)
Play(id, c, q) ==
    IF playingId = id
    THEN Stop(c, q)
    ELSE LET utterance == NewUtterance(id)
         IN  /\ SetEngine(SynthSpeak(SynthCancel(Engine, c, q), utterance))
             /\ utteranceRef' = utterance
             /\ playingId' = playingId

\* utterance.onstart
OnStart(u) ==
    /\ app = "mounted"
    /\ inflight[u] # <<>> /\ Head(inflight[u]) = "start"
    /\ inflight' = [inflight EXCEPT ![u] = Tail(@)]
    /\ playingId' = ItemOf(u)
    /\ lastOp' = Op("start", IF playingId # Null THEN "active" ELSE "inactive")
    /\ UNCHANGED <<available, app, path, view, utteranceRef, engQueue,
                   engSpeaking, copied, alerts, reqs>>

\* utterance.onend
OnEnd(u) ==
    /\ app = "mounted"
    /\ inflight[u] # <<>> /\ Head(inflight[u]) = "end"
    /\ inflight' = [inflight EXCEPT ![u] = Tail(@)]
    /\ playingId' = Null
    /\ utteranceRef' = NoUtt
    /\ lastOp' = Op("end", IF playingId # Null THEN "active" ELSE "inactive")
    /\ UNCHANGED <<available, app, path, view, engQueue, engSpeaking,
                   copied, alerts, reqs>>

\* utterance.onerror that logs the error and leaves the state as it is
OnErrorKeepsState(u) ==
    /\ app = "mounted"
    /\ inflight[u] # <<>> /\ Head(inflight[u]) = "error"
    /\ inflight' = [inflight EXCEPT ![u] = Tail(@)]
    /\ lastOp' = Op("error", IF playingId # Null THEN "active" ELSE "inactive")
    /\ UNCHANGED <<available, app, path, view, playingId, utteranceRef,
                   engQueue, engSpeaking, copied, alerts, reqs>>

\* utterance.onerror
OnError(u) ==
    /\ app = "mounted"
    /\ inflight[u] # <<>> /\ Head(inflight[u]) = "error"
    /\ inflight' = [inflight EXCEPT ![u] = Tail(@)]
    /\ playingId' = Null
    /\ utteranceRef' = NoUtt
    /\ lastOp' = Op("error", IF playingId # Null THEN "active" ELSE "inactive")
    /\ UNCHANGED <<available, app, path, view, engQueue, engSpeaking,
                   copied, alerts, reqs>>

----------------------------------------------------------------------------
(* The browser's speech engine *)

\* the engine begins speaking the utterance at the head of its queue
EngineStart ==
    /\ app = "mounted"
    /\ engSpeaking = NoUtt /\ engQueue # <<>>
    /\ engSpeaking' = Head(engQueue)
    /\ engQueue' = Tail(engQueue)
    /\ inflight' = [inflight EXCEPT ![Head(engQueue)] = Append(@, "start")]
    /\ lastOp' = Op("engine", "-")
    /\ UNCHANGED <<available, app, path, view, playingId, utteranceRef,
                   copied, alerts, reqs>>

\* the utterance being spoken completes (ev = "end") or fails (ev = "error")
EngineFinish(ev) ==
    /\ app = "mounted"
    /\ engSpeaking # NoUtt
    /\ engSpeaking' = NoUtt
    /\ inflight' = [inflight EXCEPT ![engSpeaking] = Append(@, ev)]
    /\ lastOp' = Op("engine", "-")
    /\ UNCHANGED <<available, app, path, view, playingId, utteranceRef,
                   engQueue, copied, alerts, reqs>>

----------------------------------------------------------------------------
(* ContentCard *)

\* handleSpeak of the card of item, leaving the request history aside
HandleSpeakCard(item) ==
    /\ app = "mounted"
    /\ SpeakButtonShown(view, item)
    /\ IF ~available
       THEN /\ alerts < MaxAlerts
            /\ alerts' = alerts + 1
            /\ lastOp' = Op("alert", "-")
            /\ UNCHANGED audioVars
       ELSE /\ alerts' = alerts
            /\ IF IsPlaying(item)
               THEN /\ \E c \in CancelSpeakingOutcomes, q \in CancelQueuedOutcomes :
                         Stop(c, q)
                    /\ lastOp' = Op("stop", EngineStatus)
               ELSE /\ LiveCount < MaxLive
                    /\ \E c \in CancelSpeakingOutcomes, q \in CancelQueuedOutcomes :
                         Play(item, c, q)
                    /\ lastOp' = Op("play", EngineStatus)
    /\ UNCHANGED <<available, app, path, view, copied>>

\* handleSpeak of the card of item
HandleSpeak(item) ==
    /\ HandleSpeakCard(item)
    /\ reqs' = reqs

\* handleSpeak of the card of item, with the request recorded
HandleSpeakRecorded(item) ==
    /\ HandleSpeakCard(item)
    /\ reqs' = IF ~available THEN reqs
               ELSE Remember(item, IF IsPlaying(item) THEN "stop" ELSE "play")

\* handleCopy of the card of item (the clipboard itself is not modelled)
HandleCopy(item) ==
    /\ app = "mounted"
    /\ item \in CardsShown(view)
    /\ copied' = copied \cup {item}
    /\ lastOp' = Op("copy", "-")
    /\ UNCHANGED <<available, app, path, view, audioVars, alerts, reqs>>

\* the 2000 ms timer of handleCopy fires on a mounted card
CopyTimeout(item) ==
    /\ app = "mounted"
    /\ item \in copied
    /\ copied' = copied \ {item}
    /\ lastOp' = Op("timer", "-")
    /\ UNCHANGED <<available, app, path, view, audioVars, alerts, reqs>>

----------------------------------------------------------------------------
(* Navigation *)

\* a navigation that also stops playback
NavigateStoppingAudio(p) ==
    /\ path' = p
    /\ view' = Render(p)
    /\ copied' = {}
    /\ Stop("end", "none")
    /\ UNCHANGED <<available, app, alerts, reqs>>

\* navigate(p): the route element for p replaces the current one, whose local
\* state goes with it; AudioProvider sits above the router and stays mounted
Navigate(p) ==
    /\ path' = p
    /\ view' = Render(p)
    /\ copied' = {}
    /\ UNCHANGED <<available, app, audioVars, alerts, reqs>>

\* HomePage: the two section buttons
SelectSection(s) ==
    /\ app = "mounted"
    /\ view.kind = "home"
    /\ Navigate(<<s>>)
    /\ lastOp' = Op("select", "-")

\* SectionCategoriesPage: the CategoryCard of category c
SelectCategory(c) ==
    /\ app = "mounted"
    /\ c \in CategoriesShown(view)
    /\ Navigate(<<path[1], c>>)
    /\ lastOp' = Op("select", "-")

\* a back button that always goes home
HandleBackHome ==
    /\ app = "mounted"
    /\ view.kind \in {"section", "items"}
    /\ Navigate(<<>>)
    /\ lastOp' = Op("back", view.kind)

\* Header.handleBack; the button is rendered by the section and items views
HandleBack ==
    /\ app = "mounted"
    /\ view.kind \in {"section", "items"}
    /\ LET pathSegments == path
       IN  IF Len(pathSegments) > 1
           THEN Navigate(<<pathSegments[1]>>)
           ELSE Navigate(<<>>)
    /\ lastOp' = Op("back", view.kind)

----------------------------------------------------------------------------

Others ==
    \/ MountEffect
    \/ \E u \in Utterances : OnStart(u)
    \/ \E u \in Utterances : OnEnd(u)
    \/ \E u \in Utterances : OnError(u)
    \/ EngineStart
    \/ \E ev \in {"end", "error"} : EngineFinish(ev)
    \/ \E item \in Items : HandleCopy(item)
    \/ \E item \in Items : CopyTimeout(item)
    \/ \E s \in {"azkar", "adiyah"} : SelectSection(s)
    \/ \E c \in SegmentIds : SelectCategory(c)
    \/ HandleBack

Next ==
    \/ \E item \in Items : HandleSpeak(item)
    \/ Others

Spec == Init /\ [][Next]_vars

\* the same program, with the last two speak requests recorded in reqs
NextRequests ==
    \/ \E item \in Items : HandleSpeakRecorded(item)
    \/ Others

SpecRequests == Init /\ [][NextRequests]_vars

----------------------------------------------------------------------------
(* Properties *)

\* every event issued so far has been delivered, and the engine holds no
\* utterance whose start event is still to be issued
Quiescent ==
    /\ \A u \in Utterances : inflight[u] = <<>>
    /\ engQueue = <<>>

EngineLoad == Len(engQueue) + (IF engSpeaking = NoUtt THEN 0 ELSE 1)

\* start events that are still to reach the page: issued and not delivered,
\* or still to be issued for a queued utterance
PendingStarts ==
    Cardinality({u \in Utterances : "start" \in Range(inflight[u])}) + Len(engQueue)

\* C1: two consecutive speak requests on the same item, the first of which
\* started playback, toggle playback off: once every notification has been
\* delivered no item is active and nothing is speaking.
C1_PlayTwiceTogglesOff ==
    ( /\ Len(reqs) = 2
      /\ reqs[1].kind = "play"
      /\ reqs[2].item = reqs[1].item
      /\ Quiescent )
    => (playingId = Null /\ engSpeaking = NoUtt)

\* C2: after play(A) then play(B) with A # B, once B's utterance is speaking,
\* its start has been delivered and no notification of an utterance of A is
\* in flight, B is the active item.
C2_Preemption ==
    ( /\ Len(reqs) = 2
      /\ reqs[1].kind = "play" /\ reqs[2].kind = "play"
      /\ reqs[1].item # reqs[2].item
      /\ engSpeaking # NoUtt
      /\ ItemOf(engSpeaking) = reqs[2].item
      /\ "start" \notin Range(inflight[engSpeaking])
      /\ \A u \in Utterances : ItemOf(u) = reqs[1].item => inflight[u] = <<>> )
    => playingId = reqs[2].item

\* C3: immediately after stop() the active id is null, the retained
\* utterance reference is null and the engine holds no utterance.
C3_StopClearsEverything ==
    lastOp.op = "stop"
    => /\ playingId = Null
       /\ utteranceRef = NoUtt
       /\ engQueue = <<>>
       /\ engSpeaking = NoUtt

C3_StopWhileSpeaking == lastOp = Op("stop", "speaking")

\* C4: delivering an end or an error notification leaves the coordinator in
\* the state stop() leaves it in (no active id, no utterance reference), the
\* same for both kinds, and submits nothing to the engine (no retry).
C4_EndAndErrorClear ==
    [][ \A u \in Utterances :
          ( /\ inflight[u] # <<>>
            /\ Head(inflight[u]) \in {"end", "error"}
            /\ inflight'[u] = Tail(inflight[u]) )
          => /\ playingId' = Null
             /\ utteranceRef' = NoUtt
             /\ engQueue' = engQueue
             /\ engSpeaking' = engSpeaking ]_vars

C4_ErrorClearedActiveId == lastOp = Op("error", "active") /\ playingId = Null

\* C5 as stated: at most one utterance is queued or speaking, at most one
\* start notification is pending, and at most one item is active.
C5_AtMostOneStartPending ==
    /\ EngineLoad <= 1
    /\ PendingStarts <= 1
    /\ Cardinality({i \in Items : IsPlaying(i)}) <= 1

\* C5 amended: at most one utterance is queued or speaking in the engine, so
\* the engine has at most one start still to issue, and at most one item is
\* active.
C5_AtMostOneUtterance ==
    /\ EngineLoad <= 1
    /\ Cardinality({i \in Items : IsPlaying(i)}) <= 1

C5_PlayPreemptedSpeaking ==
    /\ lastOp = Op("play", "speaking")
    /\ Len(engQueue) = 1
    /\ engSpeaking = NoUtt

\* C6: without the speech capability every listen button the page of the
\* current path offers is there to be pressed (and answers with one alert),
\* and nothing else happens: no playback state, no play, no stop.
C6_UnavailableOnlyAlerts ==
    (~available /\ app # "mounting")
    => /\ \A item \in Items :
            SpeakButtonShown(Render(path), item) => SpeakButtonShown(view, item)
       /\ playingId = Null /\ utteranceRef = NoUtt /\ EngineLoad = 0
       /\ lastOp.op \notin {"play", "stop"}

\* C7: back goes to the parent of the current path: from an items view to
\* the section view of the same section, from a section view to Home.
C7_BackGoesToParent ==
    [][ Len(path') < Len(path)
        => /\ path' = (IF Len(path) = 2 THEN <<path[1]>> ELSE <<>>)
           /\ view'.kind = (IF Len(path) = 2 THEN "section" ELSE "home")
           /\ (Len(path) = 2 => view'.section = path[1]) ]_vars

C7_BackFromItems == lastOp = Op("back", "items") /\ view.kind = "section"

SectionIds == {s.id : s \in Range(APP_DATA)}
CategoryIdsOf(sectionId) ==
    UNION {{c.id : c \in Range(s.categories)} : s \in {t \in Range(APP_DATA) : t.id = sectionId}}

\* what the store says the page of the current path shows
RendersAsStored ==
    /\ (Len(path) = 1 =>
          IF path[1] \in SectionIds
          THEN view = View("section", path[1], "")
          ELSE view.kind = "sectionNotFound")
    /\ (Len(path) = 2 =>
          IF path[1] \in SectionIds /\ path[2] \in CategoryIdsOf(path[1])
          THEN view = View("items", path[1], path[2])
          ELSE view.kind = "contentNotFound")

\* C8: in every state a path with an identifier absent from the store shows
\* the not-found placeholder of its route (the section placeholder, or the
\* content placeholder, also for a category of the other section), and a
\* path with stored identifiers shows the stored data; nothing crashes.
C8_NotFoundPlaceholder == RendersAsStored

\* the pages themselves follow the store: the only state that does not
\* render as stored is the one after the mount effect has thrown
RendersAsStoredUnlessCrashed ==
    /\ [](app # "crashed" => RendersAsStored)
    /\ [][view.kind \in {"sectionNotFound", "contentNotFound"} => path' = path]_vars

\* C9 as stated: right after a navigation transition every piece of state
\* but the path has its initial value: nothing active, nothing speaking.
C9_NothingSurvivesTransition ==
    lastOp.op \in {"select", "back"}
    => /\ playingId = Null
       /\ EngineLoad = 0
       /\ copied = {}

\* C9 amended: a navigation transition resets the state local to the view
\* it leaves and keeps the playback state: active id, utterance reference,
\* engine and notifications in flight are unchanged.
C9_TransitionKeepsPlayback ==
    [][ path' # path
        => /\ copied' = {}
           /\ view' = Render(path')
           /\ UNCHANGED audioVars ]_vars

C9_BackWhilePlaying ==
    /\ lastOp.op = "back"
    /\ playingId # Null
    /\ engSpeaking # NoUtt
    /\ ItemOf(engSpeaking) = playingId

\* C10: the active id agrees with the engine: when nothing is in flight an
\* active id is the item of the utterance being spoken, and an utterance
\* that is speaking and whose start has been delivered is the active one.
C10_ActiveIdAgreesWithEngine ==
    /\ (Quiescent /\ playingId # Null)
          => (engSpeaking # NoUtt /\ ItemOf(engSpeaking) = playingId)
    /\ (engSpeaking # NoUtt /\ "start" \notin Range(inflight[engSpeaking]))
          => playingId = ItemOf(engSpeaking)

====
